---- MODULE Spec2Model ----
(***************************************************************************)
(* Pack store of git-rs (src/stores/pack.rs): Store::get and               *)
(* Store::read_bounds, the per-record header decoder, the literal,         *)
(* offset-delta and reference-delta arms and the recursive resolution of   *)
(* offset-delta bases.                                                     *)
(*                                                                         *)
(* A u64 of the program is four limbs of 16 bits, so that shifts, wrapping *)
(* and overflow are those of a 64 bit word.                                *)
(* A u8 is a number in 0..255.  Arithmetic that overflows panics in a      *)
(* build with overflow checks ("debug") and wraps in one without           *)
(* ("release"); the build is chosen in Init.                               *)
(***************************************************************************)
EXTENDS Integers, Sequences, FiniteSets, TLC

\* ------------------------------------------------------------- bounds
\* number of records a pack of the family holds at most
MaxRecords == 3
\* number of read_bounds calls nested at most (the code has no limit)
MaxDepth == 5

\* ------------------------------------------------- program constants
\* width of start, end, size and offset (u64)
W == 64
\* width of a limb of the representation of a u64
LimbBits == 16
\* bytes of a base identifier in a reference-delta record
IdLen == 20
\* bytes of the zlib header skipped before the deflate stream
ZlibHeaderLen == 2
\* type tags of the two delta kinds (crate::delta)
OFS_DELTA == 6
REF_DELTA == 7

\* ---------------------------------------------------- u64 as limbs
\* a u64 is <<l1, l2, l3, l4>>, four limbs of LimbBits bits, the least
\* significant first
Pow2(n) == 2 ^ n
Base == Pow2(LimbBits)
Zero == <<0, 0, 0, 0>>

\* the u64 of a number below 2^31
ToBits(n) == <<n % Base, n \div Base, 0, 0>>

FitsNat(x) == x[2] < Pow2(LimbBits - 1) /\ x[3] = 0 /\ x[4] = 0

\* the number of a u64 that fits 31 bits
ToNat(x) == x[1] + Base * x[2]

\* x < y
Less(x, y) ==
  \/ x[4] < y[4]
  \/ x[4] = y[4] /\ x[3] < y[3]
  \/ x[4] = y[4] /\ x[3] = y[3] /\ x[2] < y[2]
  \/ x[4] = y[4] /\ x[3] = y[3] /\ x[2] = y[2] /\ x[1] < y[1]

LimbAt(x, i) == IF i \in 1..(W \div LimbBits) THEN x[i] ELSE 0

\* x << k for k < W: the bits shifted out of the word are lost
Shl(x, k) ==
  [i \in 1..(W \div LimbBits) |->
     ((LimbAt(x, i - (k \div LimbBits)) * Pow2(k % LimbBits)) % Base)
       + (LimbAt(x, i - (k \div LimbBits) - 1) \div Pow2(LimbBits - (k % LimbBits)))]

OrBit(a, b, i) ==
  IF (a \div Pow2(i)) % 2 = 1 \/ (b \div Pow2(i)) % 2 = 1 THEN Pow2(i) ELSE 0

\* a | b of two limbs
OrLimb(a, b) ==
  OrBit(a, b, 0) + OrBit(a, b, 1) + OrBit(a, b, 2) + OrBit(a, b, 3)
    + OrBit(a, b, 4) + OrBit(a, b, 5) + OrBit(a, b, 6) + OrBit(a, b, 7)
    + OrBit(a, b, 8) + OrBit(a, b, 9) + OrBit(a, b, 10) + OrBit(a, b, 11)
    + OrBit(a, b, 12) + OrBit(a, b, 13) + OrBit(a, b, 14) + OrBit(a, b, 15)

Or(x, y) == [i \in 1..(W \div LimbBits) |-> OrLimb(x[i], y[i])]

Not(x) == [i \in 1..(W \div LimbBits) |-> Base - 1 - x[i]]

\* the carry out of limb i of x + y + c
Carry(x, y, c, i) ==
  CASE i = 0 -> c
    [] i = 1 -> (x[1] + y[1] + c) \div Base
    [] i = 2 -> (x[2] + y[2] + ((x[1] + y[1] + c) \div Base)) \div Base
    [] i = 3 -> (x[3] + y[3]
                  + ((x[2] + y[2] + ((x[1] + y[1] + c) \div Base)) \div Base)) \div Base
    [] i = 4 -> (x[4] + y[4]
                  + ((x[3] + y[3]
                       + ((x[2] + y[2] + ((x[1] + y[1] + c) \div Base)) \div Base))
                     \div Base)) \div Base

\* x + y + c modulo 2^W
SumOf(x, y, c) ==
  [i \in 1..(W \div LimbBits) |-> (x[i] + y[i] + Carry(x, y, c, i - 1)) % Base]

\* x + y modulo 2^W, with the overflow a checked build panics on
Add(x, y) == [val |-> SumOf(x, y, 0), ovf |-> Carry(x, y, 0, 4) = 1]

\* x - y modulo 2^W, with the underflow a checked build panics on
Sub(x, y) == [val |-> SumOf(x, Not(y), 1), ovf |-> Less(x, y)]

\* ------------------------------------------------------------ bytes
Cont(b) == b >= 128
Low7(b) == b % 128
Low4(b) == b % 16
TypeBits(b) == (b \div 16) % 8

Last(s) == s[Len(s)]
Front(s) == SubSeq(s, 1, Len(s) - 1)

\* ------------------------------------------------- the bounded stream
\* the smaller of a u64 and a number
Clamp(x, n) == IF FitsNat(x) /\ ToNat(x) <= n THEN ToNat(x) ELSE n

\* the bytes that BufReader::new(handle), seek(Start(start)), take(limit)
\* yields: those of the pack from start on, limit of them at most
BoundedStream(bytes, start, limit) ==
  LET from == Clamp(start, Len(bytes))
      n == Clamp(limit, Len(bytes) - from)
  IN SubSeq(bytes, from + 1, from + n)

\* ------------------------------------------------- the record header
\* the shift of the pop that leaves len bytes in a size_vec of count bytes
SizeShift(count, len) == 4 + 7 * (count - len)

\* size |= next << shift; a checked build panics on a shift by W bits or
\* more, an unchecked one shifts by shift % W
SizeOr(size, next, shift) == Or(size, Shl(ToBits(next), shift % W))

\* ---------------------------------------------- the offset of a delta
\* a round that leaves out offset += 1, as a plain base 128 number has it
OffsetStepNoIncrement(offset, byte) ==
  [val |-> Add(Shl(offset, 7), ToBits(Low7(byte))).val,
   ovf |-> Add(Shl(offset, 7), ToBits(Low7(byte))).ovf]

\* one round of the loop: offset += 1; offset <<= 7; offset += byte & 0x7F
OffsetStep(offset, byte) ==
  [val |-> Add(Shl(Add(offset, ToBits(1)).val, 7), ToBits(Low7(byte))).val,
   ovf |-> \/ Add(offset, ToBits(1)).ovf
           \/ Add(Shl(Add(offset, ToBits(1)).val, 7), ToBits(Low7(byte))).ovf]

\* read_exact of n bytes
ReadExact(stream, n) ==
  IF Len(stream) < n THEN [out |-> "io", bytes |-> <<>>, rest |-> stream]
  ELSE [out |-> "ok", bytes |-> SubSeq(stream, 1, n),
        rest |-> SubSeq(stream, n + 1, Len(stream))]

\* ------------------------------------------------- packs of the model
RECURSIVE EncodeSizeTail(_)
EncodeSizeTail(s) ==
  IF s < 128 THEN <<s>> ELSE <<128 + (s % 128)>> \o EncodeSizeTail(s \div 128)

\* the canonical header of (type, size): four size bits in the first
\* byte, seven in each further one, least significant first
EncodeHeader(t, s) ==
  IF s < 16 THEN <<t * 16 + s>>
  ELSE <<128 + t * 16 + (s % 16)>> \o EncodeSizeTail(s \div 16)

RECURSIVE EncodeOffsetHigh(_)
EncodeOffsetHigh(n) ==
  (IF (n - 1) \div 128 > 0 THEN EncodeOffsetHigh((n - 1) \div 128) ELSE <<>>)
    \o <<128 + ((n - 1) % 128)>>

\* the canonical encoding of the offset of an offset-delta
EncodeOffset(off) ==
  (IF off \div 128 > 0 THEN EncodeOffsetHigh(off \div 128) ELSE <<>>) \o <<off % 128>>

Repeat(b, n) == [i \in 1..n |-> b]

ZlibHeader == <<120, 156>>
\* the deflate stream of no bytes: one final block, holding its end alone
Deflated == <<3, 0>>
\* no deflate stream: a final block of the reserved block type 3
Corrupt == <<7>>
ExternalId == Repeat(171, IdLen)

Lit(t, s) == EncodeHeader(t, s) \o ZlibHeader \o Deflated
Ofs(off, deflate) ==
  EncodeHeader(OFS_DELTA, 4) \o EncodeOffset(off) \o ZlibHeader \o deflate
Ref(id, deflate) == EncodeHeader(REF_DELTA, 4) \o id \o ZlibHeader \o deflate

\* a blob long enough for an offset of two bytes to reach it
BigLit == EncodeHeader(3, 130) \o ZlibHeader \o Repeat(0, 126)
\* a header of nine bytes: the last shift of the size is by 67 bits
LongHeader == <<145>> \o Repeat(128, 7) \o <<1>> \o ZlibHeader \o Deflated
\* an offset-delta whose offset reaches 2^64 - 1 and is incremented again
OverflowOffset ==
  <<96>> \o Repeat(254, 9) \o <<255, 5>> \o ZlibHeader \o Deflated
\* an offset-delta of 15 bytes whose offset is 2^64 - 15
WrapForward == <<96>> \o Repeat(254, 9) \o <<113>> \o ZlibHeader \o Deflated

FirstRecords ==
  {Ofs(0, Deflated), Ofs(1, Deflated), Lit(1, 5), Lit(0, 5), Lit(2, 300), Lit(4, 70000), Lit(5, 5),
   Ref(ExternalId, Deflated), Ref(ExternalId, Corrupt),
   BigLit, LongHeader, OverflowOffset, WrapForward}

RECURSIVE Flatten(_)
Flatten(recs) == IF recs = <<>> THEN <<>> ELSE Head(recs) \o Flatten(Tail(recs))

\* the records that follow recs: offset-deltas over the last record and
\* over an empty range
NextRecords(recs) ==
  {Ofs(Len(Last(recs)), Deflated), Ofs(Len(Last(recs)), Corrupt), Ofs(0, Deflated)}

RECURSIVE RecordSeqs(_)
RecordSeqs(n) ==
  IF n = 0 THEN {<<>>}
  ELSE IF n = 1 THEN {<<r>> : r \in FirstRecords}
  ELSE UNION {{Append(recs, r) : r \in NextRecords(recs)} : recs \in RecordSeqs(n - 1)}

AllRecordSeqs == UNION {RecordSeqs(n) : n \in 0..MaxRecords}

\* the identifier of the k-th record of a pack
Oid(k) == Repeat(k, IdLen)
ObjIds == {Oid(k) : k \in 1..(MaxRecords + 1)}

None == [kind |-> "None"]

\* the bounds of the k-th record of recs
RecordBounds(recs, k) ==
  LET from == Len(Flatten(SubSeq(recs, 1, k - 1)))
  IN [start |-> ToBits(from), end |-> ToBits(from + Len(recs[k]))]

\* the index of a pack: the bounds of each of its records
IndexOf(recs) ==
  [id \in ObjIds |->
     LET k == id[1] IN IF k <= Len(recs) THEN RecordBounds(recs, k) ELSE None]

\* ------------------------------------------------------------- state
VARIABLES
  build,    \* "debug": overflow checks panic; "release": arithmetic wraps
  pack,     \* the bytes every handle of the source factory reads
  index,    \* Store.index: identifier -> bounds of its record, or None
  pc,       \* "idle", "running", "get_ret", "done" or "panicked"
  args,     \* the call in progress: its entry point and arguments
  stack,    \* the read_bounds calls in progress, the innermost last
  ret,      \* the value the last call returned
  opens,    \* invocations of the source factory by the call in progress
  lookups   \* invocations of get_object by the call in progress

vars == <<build, pack, index, pc, args, stack, ret, opens, lookups>>

Pending == [kind |-> "Pending"]
Err(e) == [kind |-> "Err", err |-> e]
Ok(t, stream) == [kind |-> "Ok", type |-> t, stream |-> stream]

\* the error that `?` makes of the std::io::Error of a read_exact that
\* meets the end of the stream (crate::errors)
FromIoError == Err("Io")

\* the error of the source factory, handed on by `?` as it is
SourceError == Err("SourceError")

\* the error of get_object, handed on by `?` as it is
LookupError == Err("LookupError")

\* DeflateDecoder::new(stream): the inflated bytes, read as the caller reads
DeflateDecoder(stream) == [kind |-> "Deflate", src |-> stream]
\* DeltaDecoder::new(&instructions, base)
DeltaDecoder(instructions, base) ==
  [kind |-> "Delta", instructions |-> instructions, base |-> base]

NoInstructions == [src |-> <<>>, complete |-> TRUE]

NewFrame(start, end) ==
  [start |-> start, end |-> end, step |-> "open", stream |-> <<>>,
   byte |-> 0, type_flag |-> 0, size_vec |-> <<>>, count |-> 0, size |-> Zero,
   offset |-> Zero,
   id |-> <<>>, instructions |-> NoInstructions]

Checked == build = "debug"

Top == stack[Len(stack)]

\* the tags of the literal arm: 0...4
LiteralTags == 0..4

Types == {"Commit", "Tree", "Blob", "Tag"}

\* the tag of a looked up base: Commit 1, Tree 2, Blob 3, Tag 4
TypeTag(t) ==
  CASE t = "Commit" -> 1 [] t = "Tree" -> 2 [] t = "Blob" -> 3 [] t = "Tag" -> 4

\* what Store::get makes of the tag read_bounds returned
TypedResult(t, stream) ==
  CASE t = 1 -> [kind |-> "Some", type |-> "Commit", stream |-> stream]
    [] t = 2 -> [kind |-> "Some", type |-> "Tree", stream |-> stream]
    [] t = 3 -> [kind |-> "Some", type |-> "Blob", stream |-> stream]
    [] t = 4 -> [kind |-> "Some", type |-> "Tag", stream |-> stream]
    [] OTHER -> Err("CorruptedPackfile")

\* an absent identifier reported as corruption
GetAbsentAsCorrupted == Err("CorruptedPackfile")

\* Store::get of an identifier the index does not hold
GetAbsent == None

\* an unresolved base reported as an object that is not there
RefBaseAbsentAsNotFound == None

\* read_bounds of a reference-delta whose base get_object does not find
RefBaseAbsent == Err("CorruptedPackfile")

\* what get_object may answer for an identifier
LookupOutcomes(id) ==
  {None, LookupError}
    \cup {[kind |-> "Some", type |-> t, stream |-> [kind |-> "External", id |-> id]] :
            t \in Types}

\* the pairs (start, end) read_bounds is called with directly
Windows ==
  {<<0, 0>>} \cup
  UNION {LET a == ToNat(index[id].start)
             e == ToNat(index[id].end)
         IN {<<a, e>>, <<a, a>>, <<a, a + 1>>, <<e, a>>, <<a + 1, e>>} :
           id \in {i \in ObjIds : index[i] # None}}

Init ==
  /\ build \in {"debug", "release"}
  /\ \E recs \in AllRecordSeqs :
       /\ pack = Flatten(recs)
       /\ index = IndexOf(recs)
  /\ pc = "idle"
  /\ args = [entry |-> "none", id |-> <<>>, start |-> Zero, end |-> Zero]
  /\ stack = <<>>
  /\ ret = Pending
  /\ opens = 0
  /\ lookups = <<>>

\* ------------------------------------------------------------- calls
\* Store::get(id, get_object)
CallGet ==
  /\ pc = "idle"
  /\ \E id \in ObjIds :
       /\ opens' = 0
       /\ lookups' = <<>>
       /\ IF index[id] = None
          THEN /\ args' = [entry |-> "get", id |-> id, start |-> Zero, end |-> Zero]
               /\ ret' = GetAbsent
               /\ pc' = "done"
               /\ stack' = <<>>
          ELSE /\ args' = [entry |-> "get", id |-> id,
                           start |-> index[id].start, end |-> index[id].end]
               /\ ret' = Pending
               /\ pc' = "running"
               /\ stack' = <<NewFrame(index[id].start, index[id].end)>>
  /\ UNCHANGED <<build, pack, index>>

\* Store::read_bounds(start, end, get_object), called directly
CallReadBounds ==
  /\ pc = "idle"
  /\ \E w \in Windows :
       /\ args' = [entry |-> "read_bounds", id |-> <<>>,
                   start |-> ToBits(w[1]), end |-> ToBits(w[2])]
       /\ stack' = <<NewFrame(ToBits(w[1]), ToBits(w[2]))>>
  /\ ret' = Pending
  /\ pc' = "running"
  /\ opens' = 0
  /\ lookups' = <<>>
  /\ UNCHANGED <<build, pack, index>>

\* the innermost read_bounds returns v: to the offset-delta arm of its
\* caller, to Store::get, or to the caller of read_bounds
Return(v) ==
  /\ ret' = v
  /\ stack' = Front(stack)
  /\ pc' = IF Len(stack) > 1 THEN "running"
           ELSE IF args.entry = "get" THEN "get_ret" ELSE "done"

Panic ==
  /\ pc' = "panicked"
  /\ UNCHANGED <<stack, ret>>

SetTop(f) ==
  /\ stack' = [stack EXCEPT ![Len(stack)] = f]
  /\ UNCHANGED <<pc, ret>>

Running(step) == pc = "running" /\ stack # <<>> /\ Top.step = step

\* ------------------------------------------------------- read_bounds
\* (self.read)()?, seek(Start(start))?, take(end - start)
Open ==
  /\ Running("open")
  /\ opens' = opens + 1
  /\ LET limit == Sub(Top.end, Top.start)
     IN IF Checked /\ limit.ovf THEN Panic
        ELSE SetTop([Top EXCEPT !.stream = BoundedStream(pack, Top.start, limit.val),
                                !.step = "header"])
  /\ UNCHANGED <<build, pack, index, args, lookups>>

\* (self.read)()? when the source factory fails
OpenFails ==
  /\ Running("open")
  /\ opens' = opens + 1
  /\ Return(SourceError)
  /\ UNCHANGED <<build, pack, index, args, lookups>>

\* the first byte: continuation, type_flag and four bits of the size
ReadHeader ==
  /\ Running("header")
  /\ IF Top.stream = <<>> THEN Return(FromIoError)
     ELSE SetTop([Top EXCEPT !.byte = Head(Top.stream),
                             !.type_flag = TypeBits(Head(Top.stream)),
                             !.size_vec = <<Low4(Head(Top.stream))>>,
                             !.stream = Tail(Top.stream), !.step = "header_loop"])
  /\ UNCHANGED <<build, pack, index, args, opens, lookups>>

\* while the continuation bit is set: seven more bits of the size
HeaderNext ==
  /\ Running("header_loop")
  /\ Cont(Top.byte)
  /\ IF Top.stream = <<>> THEN Return(FromIoError)
     ELSE SetTop([Top EXCEPT !.byte = Head(Top.stream),
                             !.size_vec = Append(@, Low7(Head(Top.stream))),
                             !.stream = Tail(Top.stream)])
  /\ UNCHANGED <<build, pack, index, args, opens, lookups>>

\* count = size_vec.len(); size = size_vec.pop()
SizeFirst ==
  /\ Running("header_loop")
  /\ ~Cont(Top.byte)
  /\ SetTop([Top EXCEPT !.count = Len(Top.size_vec),
                        !.size = ToBits(Last(Top.size_vec)),
                        !.size_vec = Front(Top.size_vec), !.step = "size"])
  /\ UNCHANGED <<build, pack, index, args, opens, lookups>>

\* while size_vec.len() > 0: size |= pop << (4 + 7 * (count - len))
SizeNext ==
  /\ Running("size")
  /\ Top.size_vec # <<>>
  /\ IF Checked /\ SizeShift(Top.count, Len(Top.size_vec) - 1) >= W THEN Panic
     ELSE SetTop([Top EXCEPT !.size = SizeOr(@, Last(Top.size_vec),
                                             SizeShift(Top.count, Len(Top.size_vec) - 1)),
                             !.size_vec = Front(Top.size_vec)])
  /\ UNCHANGED <<build, pack, index, args, opens, lookups>>

\* match type_flag
Dispatching == Running("size") /\ Top.size_vec = <<>>

\* 0...4 => the zlib header is skipped, the rest is the deflate stream
Literal ==
  /\ Dispatching
  /\ Top.type_flag \in LiteralTags
  /\ LET z == ReadExact(Top.stream, ZlibHeaderLen)
     IN IF z.out = "io" THEN Return(FromIoError)
        ELSE Return(Ok(Top.type_flag, DeflateDecoder(z.rest)))
  /\ UNCHANGED <<build, pack, index, args, opens, lookups>>

\* any other tag
BadType ==
  /\ Dispatching
  /\ Top.type_flag \notin LiteralTags \cup {OFS_DELTA, REF_DELTA}
  /\ Return(Err("BadLooseObject"))
  /\ UNCHANGED <<build, pack, index, args, opens, lookups>>

\* whether DeflateDecoder inflates src to its end: a block of the reserved
\* type is an error and the stream Deflated is none; any other bytes may
\* inflate or fail
InflateOutcomes(src) ==
  IF src # <<>> /\ (Head(src) \div 2) % 4 = 3 THEN {FALSE}
  ELSE IF src = Deflated THEN {TRUE}
  ELSE BOOLEAN

\* the zlib header is skipped and the instructions are inflated to the
\* end; the Result of read_to_end is dropped, so that a failed inflate
\* leaves the instructions read so far
ReadInstructions(next) ==
  LET z == ReadExact(Top.stream, ZlibHeaderLen)
  IN IF z.out = "io" THEN Return(FromIoError)
     ELSE \E complete \in InflateOutcomes(z.rest) :
            SetTop([Top EXCEPT !.instructions = [src |-> z.rest, complete |-> complete],
                               !.stream = <<>>, !.step = next])

\* the first byte of the offset: offset = byte & 0x7F
OfsOffset ==
  /\ Dispatching
  /\ Top.type_flag = OFS_DELTA
  /\ IF Top.stream = <<>> THEN Return(FromIoError)
     ELSE SetTop([Top EXCEPT !.byte = Head(Top.stream),
                             !.offset = ToBits(Low7(Head(Top.stream))),
                             !.stream = Tail(Top.stream), !.step = "ofs_offset"])
  /\ UNCHANGED <<build, pack, index, args, opens, lookups>>

\* while byte & 0x80 > 0: one more byte of the offset
OfsOffsetNext ==
  /\ Running("ofs_offset")
  /\ Cont(Top.byte)
  /\ IF Checked /\ Add(Top.offset, ToBits(1)).ovf THEN Panic
     ELSE IF Top.stream = <<>> THEN Return(FromIoError)
     ELSE IF Checked /\ OffsetStep(Top.offset, Head(Top.stream)).ovf THEN Panic
     ELSE SetTop([Top EXCEPT !.byte = Head(Top.stream),
                             !.offset = OffsetStep(Top.offset, Head(Top.stream)).val,
                             !.stream = Tail(Top.stream)])
  /\ UNCHANGED <<build, pack, index, args, opens, lookups>>

OfsInstructions ==
  /\ Running("ofs_offset")
  /\ ~Cont(Top.byte)
  /\ ReadInstructions("ofs_base")
  /\ UNCHANGED <<build, pack, index, args, opens, lookups>>

\* a base looked for after the record instead of before it
BaseStartForward(start, offset) == Add(start, offset)

\* the start of the base of an offset-delta: start - offset
BaseStart(start, offset) == Sub(start, offset)

\* self.read_bounds(start - offset, start, get_object)
OfsRecurse ==
  /\ Running("ofs_base")
  /\ LET base == BaseStart(Top.start, Top.offset)
     IN IF Checked /\ base.ovf THEN Panic
        ELSE /\ Len(stack) < MaxDepth
             /\ stack' = Append([stack EXCEPT ![Len(stack)].step = "ofs_compose"],
                                NewFrame(base.val, Top.start))
             /\ ret' = Pending
             /\ pc' = "running"
  /\ UNCHANGED <<build, pack, index, args, opens, lookups>>

\* the base has returned: its error, or its type with the delta over its stream
OfsCompose ==
  /\ Running("ofs_compose")
  /\ IF ret.kind = "Ok"
     THEN Return(Ok(ret.type, DeltaDecoder(Top.instructions, ret.stream)))
     ELSE Return(ret)
  /\ UNCHANGED <<build, pack, index, args, opens, lookups>>

RefReadId ==
  /\ Dispatching
  /\ Top.type_flag = REF_DELTA
  /\ LET r == ReadExact(Top.stream, IdLen)
     IN IF r.out = "io" THEN Return(FromIoError)
        ELSE SetTop([Top EXCEPT !.id = r.bytes, !.stream = r.rest, !.step = "ref_instr"])
  /\ UNCHANGED <<build, pack, index, args, opens, lookups>>

RefInstructions ==
  /\ Running("ref_instr")
  /\ ReadInstructions("ref_lookup")
  /\ UNCHANGED <<build, pack, index, args, opens, lookups>>

\* what read_bounds returns for the answer of get_object
RefResult(out, instructions) ==
  CASE out.kind = "Some" -> Ok(TypeTag(out.type), DeltaDecoder(instructions, out.stream))
    [] out.kind = "None" -> RefBaseAbsent
    [] OTHER -> out

\* get_object(&id)?
RefLookup ==
  /\ Running("ref_lookup")
  /\ \E out \in LookupOutcomes(Top.id) :
       /\ lookups' = Append(lookups, [id |-> Top.id, out |-> out])
       /\ Return(RefResult(out, Top.instructions))
  /\ UNCHANGED <<build, pack, index, args, opens>>

\* --------------------------------------------------------------- get
\* read_bounds has returned to Store::get
GetReturn ==
  /\ pc = "get_ret"
  /\ ret' = IF ret.kind = "Ok" THEN TypedResult(ret.type, ret.stream) ELSE ret
  /\ pc' = "done"
  /\ UNCHANGED <<build, pack, index, args, stack, opens, lookups>>

\* the caller takes the result; the store is as it was
Finish ==
  /\ pc = "done"
  /\ pc' = "idle"
  /\ ret' = Pending
  /\ args' = [entry |-> "none", id |-> <<>>, start |-> Zero, end |-> Zero]
  /\ opens' = 0
  /\ lookups' = <<>>
  /\ UNCHANGED <<build, pack, index, stack>>

Step ==
  \/ Open \/ OpenFails \/ ReadHeader \/ HeaderNext \/ SizeFirst \/ SizeNext
  \/ Literal \/ BadType
  \/ OfsOffset \/ OfsOffsetNext \/ OfsInstructions \/ OfsRecurse \/ OfsCompose
  \/ RefReadId \/ RefInstructions \/ RefLookup
  \/ GetReturn

Next == CallGet \/ CallReadBounds \/ Step \/ Finish

Spec == Init /\ [][Next]_vars

\* a call in progress goes on: nothing but the call itself can stop it
FairSpec == Spec /\ WF_vars(Step)

\* =========================================================== claims
Frames == 1..Len(stack)

\* the bytes of the bounded stream of a frame, from its start
StreamOf(f) == BoundedStream(pack, f.start, Sub(f.end, f.start).val)

\* the frame has read its header
PastHeader(f) == f.step \notin {"open", "header", "header_loop"}

\* the frame has accumulated its size
PastSize(f) == PastHeader(f) /\ f.size_vec = <<>>

\* the header bytes the frame has read
HeaderBytes(f) == SubSeq(StreamOf(f), 1, f.count)

SizeSamples == {0, 4, 5, 15, 16, 130, 300, 2047, 2048, 70000}

\* C1: for every type tag t in 0..7 and every size s, decoding the
\* canonical header of (t, s) gives type_flag = t and size = s, for
\* headers of one, two and more bytes
C1_HeaderRoundTrip ==
  \A i \in Frames :
    PastSize(stack[i]) =>
      \A t \in 0..7, s \in SizeSamples :
        HeaderBytes(stack[i]) = EncodeHeader(t, s) =>
          stack[i].type_flag = t /\ stack[i].size = ToBits(s)

\* every byte of the bounded stream of the call has its continuation bit
\* set (the empty stream too): the header cannot end within the range
TruncatedHeader ==
  /\ ~Less(args.end, args.start)
  /\ \A k \in 1..Len(StreamOf(args)) : Cont(StreamOf(args)[k])

\* C2: when the bounded stream is exhausted while the last header byte
\* read has its continuation bit set (or the range is empty), read_bounds
\* returns the CorruptedPackfile error and no other
C2_TruncatedIsCorrupted ==
  (/\ pc = "done"
   /\ args.entry = "read_bounds"
   /\ TruncatedHeader
   /\ ret # SourceError) => ret = Err("CorruptedPackfile")

\* the frame is an offset-delta whose offset exceeds its start
OffsetPastStart(f) == f.type_flag = OFS_DELTA /\ Less(f.start, f.offset)

\* C3: an offset-delta whose offset is greater than its start makes
\* read_bounds return an error: the subtraction does not panic and the
\* base is not read at a wrapped position
C3_OffsetPastStartIsError ==
  \A i \in Frames :
    OffsetPastStart(stack[i]) =>
      /\ stack[i].step # "ofs_compose"
      /\ ~(pc = "panicked" /\ i = Len(stack) /\ stack[i].step = "ofs_base")

\* C4: read_bounds returns a literal result (tag, inflating stream) only
\* for the tags 1..4: a record of tag 0 is never accepted as a literal
C4_LiteralTagsAreDefinedKinds ==
  (ret.kind = "Ok" /\ ret.stream.kind = "Deflate") => ret.type \in 1..4

\* C5: no decode step panics, whatever the bytes of the pack and the
\* bounds: no shift by 64 bits or more, no overflow of the offset, no
\* underflow of start - offset or end - start
C5_NoPanic == pc # "panicked"

\* the identifier bytes of a reference-delta record
RecordId(f) == SubSeq(StreamOf(f), f.count + 1, f.count + IdLen)

\* the bytes of a reference-delta record after its zlib header
RecordInstructions(f) ==
  SubSeq(StreamOf(f), f.count + IdLen + ZlibHeaderLen + 1, Len(StreamOf(f)))

ExpectedTag == [Commit |-> 1, Tree |-> 2, Blob |-> 3, Tag |-> 4]

\* C6: a reference-delta calls get_object with the 20 bytes that follow
\* its header; Some((type, stream)) gives the tag of that type with the
\* delta of the record's instructions over that stream, None gives the
\* CorruptedPackfile error, an error gives that error
C6_RefDelta ==
  [][Len(lookups') = Len(lookups) + 1 =>
       LET f == stack[Len(stack)]
           call == lookups'[Len(lookups')]
       IN /\ f.type_flag = REF_DELTA
          /\ Len(call.id) = IdLen
          /\ call.id = RecordId(f)
          /\ f.instructions.src = RecordInstructions(f)
          /\ call.out.kind = "Some" =>
               ret' = [kind |-> "Ok", type |-> ExpectedTag[call.out.type],
                       stream |-> [kind |-> "Delta", instructions |-> f.instructions,
                                   base |-> call.out.stream]]
          /\ call.out.kind = "None" => ret' = Err("CorruptedPackfile")
          /\ call.out.kind = "Err" => ret' = call.out]_vars

\* a reference-delta found its base, a blob, through get_object
C6_Witness ==
  /\ lookups # <<>>
  /\ lookups[Len(lookups)].out.kind = "Some"
  /\ lookups[Len(lookups)].id = ExternalId
  /\ ret.kind = "Ok" /\ ret.type = 3 /\ ret.stream.kind = "Delta"

\* the offset bytes of an offset-delta record: those after the header, to
\* the first one without the continuation bit
RECURSIVE VarintLen(_, _)
VarintLen(bytes, k) ==
  IF k > Len(bytes) THEN Len(bytes)
  ELSE IF ~Cont(bytes[k]) THEN k ELSE VarintLen(bytes, k + 1)

OffsetBytes(f) ==
  LET after == SubSeq(StreamOf(f), f.count + 1, Len(StreamOf(f)))
  IN SubSeq(after, 1, VarintLen(after, 1))

\* the offset as the rule gives it: the low 7 bits of the first byte, then
\* ((offset + 1) << 7) + the low 7 bits of each next byte
RECURSIVE RuleOffset(_, _)
RuleOffset(acc, bytes) ==
  IF bytes = <<>> THEN acc
  ELSE RuleOffset((acc + 1) * 128 + (Head(bytes) % 128), Tail(bytes))

\* the frame has decoded its offset
OffsetDecoded(f) ==
  /\ f.type_flag = OFS_DELTA
  /\ \/ f.step \in {"ofs_base", "ofs_compose"}
     \/ f.step = "ofs_offset" /\ ~Cont(f.byte)

\* C7 (offset): the offset of an offset-delta is the one the rule gives
C7_OffsetRule ==
  \A i \in Frames :
    (OffsetDecoded(stack[i]) /\ Len(OffsetBytes(stack[i])) <= 4) =>
      stack[i].offset =
        ToBits(RuleOffset(Head(OffsetBytes(stack[i])) % 128, Tail(OffsetBytes(stack[i]))))

\* C7 (base): every nested call reads the range (start - offset, start) of
\* the offset-delta that made it
C7_BaseRange ==
  \A i \in Frames :
    i > 1 =>
      /\ stack[i - 1].type_flag = OFS_DELTA
      /\ stack[i - 1].step = "ofs_compose"
      /\ stack[i].end = stack[i - 1].start
      /\ ~Less(stack[i - 1].start, stack[i - 1].offset) =>
           /\ FitsNat(stack[i].start)
           /\ ToNat(stack[i].start) = ToNat(stack[i - 1].start) - ToNat(stack[i - 1].offset)

\* C7 (type): a literal returns its own tag, and an offset-delta the type
\* its base returned, with the delta of its instructions over the stream
\* of the base
C7_TypeOfBase ==
  /\ (Len(stack) >= 1 /\ Len(stack') = Len(stack) - 1
      /\ stack[Len(stack)].step = "ofs_compose" /\ ret.kind = "Ok")
       => /\ ret'.kind = "Ok"
          /\ ret'.type = ret.type
          /\ ret'.stream = [kind |-> "Delta",
                            instructions |-> stack[Len(stack)].instructions,
                            base |-> ret.stream]
  /\ (Len(stack) >= 1 /\ Len(stack') = Len(stack) - 1
      /\ stack[Len(stack)].step = "size" /\ ret'.kind = "Ok")
       => ret'.type = stack[Len(stack)].type_flag

\* C7: the offset of an offset-delta follows the rule, its base is read by
\* a nested read_bounds over (start - offset, start), and the type it
\* returns is the type its base returned, down to the literal or the
\* looked up base the chain ends in
C7_OffsetDelta ==
  /\ [](C7_OffsetRule /\ C7_BaseRange)
  /\ [][C7_TypeOfBase]_vars

\* a tree came back through a chain of two offset-deltas
C7_Witness ==
  /\ pc = "done"
  /\ ret.kind = "Ok" /\ ret.type = 2
  /\ ret.stream.kind = "Delta"
  /\ ret.stream.base.kind = "Delta"
  /\ ret.stream.base.base.kind = "Deflate"

\* C8: Store::get of an identifier the index does not hold returns
\* Ok(None), without a handle of the source and without a lookup
C8_AbsentIsNone ==
  (args.entry = "get" /\ index[args.id] = [kind |-> "None"]) =>
    /\ pc = "done"
    /\ ret = [kind |-> "None"]
    /\ stack = <<>>
    /\ opens = 0
    /\ lookups = <<>>

C8_Witness ==
  pc = "done" /\ args.entry = "get" /\ index[args.id] = [kind |-> "None"]

RECURSIVE Complete(_)
Complete(stream) ==
  IF stream.kind = "Delta"
  THEN stream.instructions.complete /\ Complete(stream.base)
  ELSE TRUE

\* C9: when inflating the instructions of a delta fails, read_bounds
\* returns an error: it returns no Ok whose delta stream is built from
\* the instructions read before the failure
C9_FailedInflateIsError ==
  ret.kind \in {"Ok", "Some"} => Complete(ret.stream)

\* the nested call i was made with a base start that did not wrap
NoWrap(i) == ~Less(stack[i - 1].start, stack[i - 1].offset)
NoWrapAtAll == \A i \in Frames : i > 1 => NoWrap(i)

\* C10 (order): without a wrap, a nested call starts before its caller, or
\* at its caller's start over an empty range, where it reads no header
C10_StartDecreases ==
  \A i \in Frames :
    (i > 1 /\ NoWrap(i)) =>
      \/ Less(stack[i].start, stack[i - 1].start)
      \/ /\ stack[i].start = stack[i - 1].start
         /\ ~PastHeader(stack[i])
         /\ StreamOf(stack[i]) = <<>>

\* the calls in progress that have read a header
HeaderFrames == {i \in Frames : PastHeader(stack[i])}

\* C10 (depth): without a wrap, the nested calls that read a header are at
\* most start, and one more call, over an empty range, may follow them
C10_DepthBound ==
  (stack # <<>> /\ NoWrapAtAll) =>
    /\ Cardinality(HeaderFrames \ {1}) <= ToNat(stack[1].start)
    /\ Len(stack) - 1 <= ToNat(stack[1].start) + 1

\* a call has wrapped the start of its base
Wrapped == \E i \in Frames : i > 1 /\ ~NoWrap(i)

====
